---- MODULE Spec2Model ----
(***************************************************************************)
(* Model of the device inventory manager (02-ip_management/ip_manager.py). *)
(*                                                                         *)
(* Representation of the Python values:                                    *)
(*   - a dict is a function whose domain is its set of keys, so an absent  *)
(*     key is a key outside the domain;                                    *)
(*   - a list is a sequence;                                               *)
(*   - the text of an IPv4 address "a.b.c.d" is the tuple <<a,b,c,d>>, the *)
(*     text of a CIDR block "a.b.c.d/p" is <<a,b,c,d,p>>, and the sentinel *)
(*     text "dhcp" is the empty tuple; an ipaddress object is its integer; *)
(*   - an exception is a result record whose field raised is TRUE.         *)
(***************************************************************************)
EXTENDS Integers, Sequences, FiniteSets, TLC

\* Longest device list of a site the model appends to.
MaxDevices == 2
\* Number of operations in one run of the model.
MaxSteps == 2

\* ------------------------------------------------------------------------
\* Values
\* ------------------------------------------------------------------------

\* The list of required fields with status forgotten.
Required_without_status == {"name", "type", "vlan", "ip", "port", "switch"}

\* add_device: required = ['name', 'type', 'vlan', 'ip', 'port', 'switch', 'status']
Required == {"name", "type", "vlan", "ip", "port", "switch", "status"}

\* A site_name that is None or empty: `if site_name:` takes the else branch.
NoSite == ""

\* The None a lookup returns when it finds nothing.
None == [none |-> TRUE]

\* The text "dhcp" in a device's ip field.
Dhcp == <<>>

\* The file after a write that started (open(..., 'w') truncates) and then
\* raised: no longer a document that holds an inventory.
Truncated == [truncated |-> TRUE]

\* d[key] = value, the key added if absent (dict item assignment).
SetItem(d, key, value) ==
    [k \in (DOMAIN d) \cup {key} |-> IF k = key THEN value ELSE d[k]]

\* The stored dict replaced by the given fields instead of merged.
DictUpdate_replaces(d, updates) == updates

\* dict.update(updates): shallow merge, the keys of updates win.
DictUpdate(d, updates) ==
    [k \in (DOMAIN d) \cup (DOMAIN updates) |->
        IF k \in DOMAIN updates THEN updates[k] ELSE d[k]]

\* dict.get('name') == device_name
NameIs(device, device_name) ==
    "name" \in DOMAIN device /\ device["name"] = device_name

\* ------------------------------------------------------------------------
\* State
\* ------------------------------------------------------------------------

VARIABLES
    inventory,  \* self.inventory: [sites |-> [site key |-> [devices, vlans]]]
    disk,       \* the document in the file config_path, or Truncated
    lastOp,     \* the last call: its arguments and what it returned
    steps       \* number of calls made so far

vars == <<inventory, disk, lastOp, steps>>

\* Insertion order of the keys of inventory['sites'] (dicts keep it).
SiteOrder == <<"hq", "branch">>

SiteKeys(inv) == DOMAIN inv.sites

\* ------------------------------------------------------------------------
\* Queries
\* ------------------------------------------------------------------------

\* get_site_info: raises ValueError when the site is not in the inventory.
get_site_info(inv, site_name) ==
    IF site_name \notin SiteKeys(inv)
    THEN [raised |-> TRUE]
    ELSE [raised |-> FALSE, site |-> inv.sites[site_name]]

\* The loop body of get_all_devices: device['site'] = site_key is an item
\* assignment on the stored dict itself, the list holds the same dicts.
AnnotateSite(devices, site_key) ==
    [i \in 1..Len(devices) |-> SetItem(devices[i], "site", site_key)]

RECURSIVE Flatten(_, _, _)
\* devices of the sites order[i..] one after the other, each list annotated
Flatten(inv, order, i) ==
    IF i > Len(order) THEN <<>>
    ELSE AnnotateSite(inv.sites[order[i]].devices, order[i])
            \o Flatten(inv, order, i + 1)

\* get_all_devices: the returned list and the inventory after the call.
get_all_devices(inv, site_name) ==
    IF site_name # NoSite
    THEN IF get_site_info(inv, site_name).raised
         THEN [raised |-> TRUE, inv |-> inv, devices |-> <<>>]
         ELSE LET annotated ==
                      AnnotateSite(inv.sites[site_name].devices, site_name)
              IN [raised |-> FALSE,
                  inv |-> [inv EXCEPT !.sites[site_name].devices = annotated],
                  devices |-> annotated]
    ELSE [raised |-> FALSE,
          inv |-> [sites |-> [s \in SiteKeys(inv) |->
                     [inv.sites[s] EXCEPT !.devices = AnnotateSite(@, s)]]],
          devices |-> Flatten(inv, SiteOrder, 1)]

\* get_devices_by_vlan: [d for d in all_devices if d.get('vlan') == vlan_id]
get_devices_by_vlan(inv, vlan_id, site_name) ==
    LET all == get_all_devices(inv, site_name)
    IN [raised |-> all.raised,
        inv |-> all.inv,
        devices |-> SelectSeq(all.devices,
                       LAMBDA d : "vlan" \in DOMAIN d /\ d["vlan"] = vlan_id)]

RECURSIVE FirstNamed(_, _, _)
\* the for loop of get_device_by_name from position i on
FirstNamed(devices, device_name, i) ==
    IF i > Len(devices) THEN None
    ELSE IF NameIs(devices[i], device_name) THEN devices[i]
    ELSE FirstNamed(devices, device_name, i + 1)

\* get_device_by_name: first match in the flattened list, or None.
get_device_by_name(inv, device_name, site_name) ==
    LET all == get_all_devices(inv, site_name)
    IN [raised |-> all.raised,
        inv |-> all.inv,
        device |-> IF all.raised THEN None
                   ELSE FirstNamed(all.devices, device_name, 1)]

\* ------------------------------------------------------------------------
\* Persistence
\* ------------------------------------------------------------------------

\* What a write can do: succeed, fail in open() before the file is touched,
\* or fail after open() has truncated it.
IoOutcomes == {"ok", "open_fails", "dump_fails"}

\* save_inventory that reports success without writing the file.
save_inventory_skips_write(inv, file, io) ==
    CASE io = "ok"         -> [raised |-> FALSE, disk |-> file]
      [] io = "open_fails" -> [raised |-> TRUE, disk |-> file]
      [] OTHER             -> [raised |-> TRUE, disk |-> Truncated]

\* save_inventory: dumps the whole of self.inventory; re-raises on failure.
save_inventory(inv, file, io) ==
    CASE io = "ok"         -> [raised |-> FALSE, disk |-> inv]
      [] io = "open_fails" -> [raised |-> TRUE, disk |-> file]
      [] OTHER             -> [raised |-> TRUE, disk |-> Truncated]

\* The tail with the exception of the save swallowed: True either way.
SaveAndReturn_swallows(inv, file, io) ==
    LET saved == save_inventory(inv, file, io)
    IN [inventory |-> inv, disk |-> saved.disk,
        result |-> TRUE, wrote |-> TRUE]

\* The tail shared by the three mutators: save, then return True; any
\* exception of the save is caught and turned into False.
SaveAndReturn(inv, file, io) ==
    LET saved == save_inventory(inv, file, io)
    IN [inventory |-> inv, disk |-> saved.disk,
        result |-> ~saved.raised, wrote |-> TRUE]

\* The except branch reached before the save: return False, file untouched.
Failed(inv, file) ==
    [inventory |-> inv, disk |-> file, result |-> FALSE, wrote |-> FALSE]

\* ------------------------------------------------------------------------
\* Mutators
\* ------------------------------------------------------------------------

\* The duplicate check left out.
AlreadyExists_never(found) == FALSE

\* add_device: `if self.get_device_by_name(device_data['name'], site_name):`
\* a found device is a non-empty dict, hence true; None is false.
AlreadyExists(found) == found.device # None

\* add_device
add_device(inv, file, site_name, device_data, io) ==
    IF \E field \in Required : field \notin DOMAIN device_data
    THEN Failed(inv, file)
    ELSE LET found == get_device_by_name(inv, device_data["name"], site_name)
         IN IF found.raised THEN Failed(inv, file)
            ELSE IF AlreadyExists(found) THEN Failed(found.inv, file)
            ELSE IF get_site_info(found.inv, site_name).raised
                 THEN Failed(found.inv, file)
            ELSE SaveAndReturn(
                    [found.inv EXCEPT !.sites[site_name].devices =
                                          Append(@, device_data)],
                    file, io)

RECURSIVE FirstIndex(_, _, _)
\* the enumerate loop of update_device: index of the first device of that
\* name, 0 when the loop ends without a match
FirstIndex(devices, device_name, i) ==
    IF i > Len(devices) THEN 0
    ELSE IF devices[i]["name"] = device_name THEN i
    ELSE FirstIndex(devices, device_name, i + 1)

\* update_device
update_device(inv, file, site_name, device_name, updates, io) ==
    IF get_site_info(inv, site_name).raised THEN Failed(inv, file)
    ELSE LET i == FirstIndex(inv.sites[site_name].devices, device_name, 1)
         IN IF i = 0 THEN Failed(inv, file)
            ELSE SaveAndReturn(
                    [inv EXCEPT !.sites[site_name].devices[i] =
                                    DictUpdate(@, updates)],
                    file, io)

\* The filter with its comparison inverted.
Kept_inverted(devices, device_name) ==
    SelectSeq(devices, LAMBDA d : d["name"] = device_name)

\* delete_device: [d for d in site['devices'] if d['name'] != device_name]
Kept(devices, device_name) ==
    SelectSeq(devices, LAMBDA d : d["name"] # device_name)

\* delete_device
delete_device(inv, file, site_name, device_name, io) ==
    IF get_site_info(inv, site_name).raised THEN Failed(inv, file)
    ELSE LET kept == Kept(inv.sites[site_name].devices, device_name)
             after == [inv EXCEPT !.sites[site_name].devices = kept]
         IN IF Len(kept) = Len(inv.sites[site_name].devices)
            THEN Failed(after, file)
            ELSE SaveAndReturn(after, file, io)

\* ------------------------------------------------------------------------
\* Addresses (the ipaddress module as calculate_free_ips uses it)
\* ------------------------------------------------------------------------

\* ipaddress.ip_address(text): the integer of a dotted quad
ip_address(text) ==
    text[1] * 16777216 + text[2] * 65536 + text[3] * 256 + text[4]

\* str(ip): the dotted quad of an integer
str_ip(ip) ==
    << ip \div 16777216, (ip \div 65536) % 256, (ip \div 256) % 256, ip % 256 >>

\* ipaddress.ip_network(subnet, strict=False): host bits are masked away
ip_network(subnet) ==
    LET size == 2 ^ (32 - subnet[5])
        network_address == (ip_address(SubSeq(subnet, 1, 4)) \div size) * size
    IN [network_address |-> network_address,
        broadcast_address |-> network_address + size - 1,
        prefixlen |-> subnet[5]]

\* hosts() that runs from the network address to the broadcast address.
hosts_inclusive(network) ==
    [i \in 1..(network.broadcast_address - network.network_address + 1)
        |-> network.network_address + i - 1]

\* network.hosts(): the addresses strictly between network and broadcast;
\* for a /31 both addresses of the block, for a /32 its single address.
hosts(network) ==
    CASE network.prefixlen = 31 ->
            <<network.network_address, network.broadcast_address>>
      [] network.prefixlen = 32 -> <<network.network_address>>
      [] OTHER ->
            [i \in 1..(network.broadcast_address - network.network_address - 1)
                |-> network.network_address + i]

RECURSIVE FirstVlan(_, _, _)
\* the for loop of get_vlan_info from position i on
FirstVlan(vlans, vlan_id, i) ==
    IF i > Len(vlans) THEN None
    ELSE IF vlans[i]["id"] = vlan_id THEN vlans[i]
    ELSE FirstVlan(vlans, vlan_id, i + 1)

\* get_vlan_info: first VLAN of the site with that id, or None
get_vlan_info(inv, vlan_id, site_name) ==
    IF get_site_info(inv, site_name).raised
    THEN [raised |-> TRUE, vlan |-> None]
    ELSE [raised |-> FALSE,
          vlan |-> FirstVlan(inv.sites[site_name].vlans, vlan_id, 1)]

RECURSIVE DeviceIps(_, _, _)
\* the loop over the devices of the VLAN: literal addresses go to used_ips
DeviceIps(devices, i, used_ips) ==
    IF i > Len(devices) THEN used_ips
    ELSE LET d == devices[i]
         IN IF "ip" \in DOMAIN d /\ d["ip"] # Dhcp
            THEN DeviceIps(devices, i + 1, used_ips \cup {ip_address(d["ip"])})
            ELSE DeviceIps(devices, i + 1, used_ips)

RECURSIVE PoolLoop(_, _, _)
\* The pool loop with the end of the range left out (current < end_ip).
PoolLoop_exclusive(current, end_ip, used_ips) ==
    IF current < end_ip
    THEN PoolLoop(current + 1, end_ip, used_ips \cup {current})
    ELSE used_ips

\* while current <= end_ip: used_ips.add(current); current += 1
PoolLoop(current, end_ip, used_ips) ==
    IF current <= end_ip
    THEN PoolLoop(current + 1, end_ip, used_ips \cup {current})
    ELSE used_ips

\* used_ips with the gateway forgotten.
UsedIps_without_gateway(vlan_info, devices) ==
    LET from_devices == DeviceIps(devices, 1, {})
    IN IF "dhcp_pool" \in DOMAIN vlan_info
       THEN PoolLoop(ip_address(vlan_info["dhcp_pool"]["start"]),
                     ip_address(vlan_info["dhcp_pool"]["end"]),
                     from_devices)
       ELSE from_devices

\* the used_ips set of calculate_free_ips once its three sources are added
UsedIps(vlan_info, devices) ==
    LET from_devices == DeviceIps(devices, 1, {})
        with_gateway ==
            IF "gateway" \in DOMAIN vlan_info
            THEN from_devices \cup {ip_address(vlan_info["gateway"])}
            ELSE from_devices
    IN IF "dhcp_pool" \in DOMAIN vlan_info
       THEN PoolLoop(ip_address(vlan_info["dhcp_pool"]["start"]),
                     ip_address(vlan_info["dhcp_pool"]["end"]),
                     with_gateway)
       ELSE with_gateway

\* for ip in network.hosts(): if ip not in used_ips: free_ips.append(str(ip))
FreeLoop(host_list, used_ips) ==
    LET kept == SelectSeq(host_list, LAMBDA ip : ip \notin used_ips)
    IN [i \in 1..Len(kept) |-> str_ip(kept[i])]

\* calculate_free_ips: the returned list and the inventory after the call
calculate_free_ips(inv, vlan_id, site_name) ==
    LET info == get_vlan_info(inv, vlan_id, site_name)
    IN IF info.raised THEN [raised |-> TRUE, inv |-> inv, free_ips |-> <<>>]
       ELSE IF info.vlan = None
            THEN [raised |-> FALSE, inv |-> inv, free_ips |-> <<>>]
       ELSE LET network == ip_network(info.vlan["subnet"])
                in_vlan == get_devices_by_vlan(inv, vlan_id, site_name)
                used_ips == UsedIps(info.vlan, in_vlan.devices)
            IN [raised |-> FALSE, inv |-> in_vlan.inv,
                free_ips |-> FreeLoop(hosts(network), used_ips)]

\* ------------------------------------------------------------------------
\* Inputs of the calls and the inventories loaded at start
\* ------------------------------------------------------------------------

\* The seven fields the specification requires of a new device.
SevenFields == {"name", "type", "vlan", "ip", "port", "switch", "status"}

\* A complete device record as the callers build it.
Device(name, ip) ==
    [name |-> name, type |-> "client", vlan |-> 20, ip |-> ip,
     port |-> "Gi0/1", switch |-> "sw1", status |-> "active"]

\* The dict d without the key.
Without(d, key) == [k \in (DOMAIN d) \ {key} |-> d[k]]

\* The empty dict.
EmptyDict == [k \in {} |-> 0]

\* Site names callers pass: the two sites of the file, one that is not in
\* it, and none.
SiteInputs == {"hq", "branch", "lab", NoSite}

\* Device names callers pass; pc9 is never stored.
NameInputs == {"pc1", "pc2", "pc9"}

\* Records passed to add_device: complete ones (two of them named pc1 with
\* different ip, one carrying a site key of its own) and, for each of the
\* seven fields, one that lacks just that field.
DeviceInputs ==
    {Device("pc1", Dhcp), Device("pc1", <<10, 10, 20, 3>>),
     Device("pc2", <<10, 10, 20, 2>>),
     SetItem(Device("pc2", Dhcp), "site", "branch")}
    \cup {Without(Device("pc2", Dhcp), field) : field \in SevenFields}

\* Field sets passed to update_device: nothing, one stored field, the name,
\* and a stored field together with a new one.
UpdateInputs ==
    {EmptyDict, [status |-> "down"], [name |-> "pc2"],
     [ip |-> <<10, 10, 20, 6>>, role |-> "kiosk"]}

\* VLAN ids callers pass; 99 is in no site.
VlanInputs == {20, 30, 99}

\* The VLAN lists of the two sites in the file of the CRUD runs.
HqVlans ==
    << [id |-> 20, subnet |-> <<10, 10, 20, 0, 29>>,
        gateway |-> <<10, 10, 20, 1>>,
        dhcp_pool |-> [start |-> <<10, 10, 20, 4>>, end |-> <<10, 10, 20, 5>>]] >>

BranchVlans == << [id |-> 20, subnet |-> <<10, 20, 20, 0, 30>>] >>

\* Device lists of the file of the CRUD runs; names are unique per site.
InitialDevices ==
    { [hq |-> <<Device("pc1", Dhcp)>>, branch |-> <<>>],
      [hq |-> <<Device("pc1", Dhcp), Device("pc2", <<10, 10, 20, 2>>)>>,
       branch |-> <<Device("pc1", <<10, 20, 20, 1>>)>>] }

\* The document yaml.safe_load returns for a file with these lists.
Document(hq_devices, hq_vlans, branch_devices, branch_vlans) ==
    [sites |-> [hq |-> [devices |-> hq_devices, vlans |-> hq_vlans],
                branch |-> [devices |-> branch_devices,
                            vlans |-> branch_vlans]]]

\* lastOp before the first call
NoOp ==
    [op |-> "none", site |-> NoSite, name |-> "", device |-> None,
     updates |-> EmptyDict, vlan |-> 0, io |-> "none", result |-> FALSE,
     wrote |-> FALSE, raised |-> FALSE, found |-> None, free_ips |-> <<>>]

\* __init__ / load_inventory: memory holds what the file holds.
Init ==
    /\ \E devs \in InitialDevices :
          inventory = Document(devs.hq, HqVlans, devs.branch, BranchVlans)
    /\ disk = inventory
    /\ lastOp = NoOp
    /\ steps = 0

\* ------------------------------------------------------------------------
\* Calls
\* ------------------------------------------------------------------------

\* The outcome r of a mutator becomes the next state.
Commit(r, call) ==
    /\ inventory' = r.inventory
    /\ disk' = r.disk
    /\ lastOp' = [call EXCEPT !.result = r.result, !.wrote = r.wrote,
                              !.io = IF r.wrote THEN @ ELSE "none"]
    /\ steps' = steps + 1

\* a call of add_device(site_name, device_data)
AddDevice(site_name, device_data, io) ==
    LET r == add_device(inventory, disk, site_name, device_data, io)
    IN /\ steps < MaxSteps
       /\ site_name \in SiteKeys(r.inventory) =>
             Len(r.inventory.sites[site_name].devices) <= MaxDevices
       /\ Commit(r, [NoOp EXCEPT !.op = "add", !.site = site_name,
                                 !.device = device_data, !.io = io])

\* a call of update_device(site_name, device_name, updates)
UpdateDevice(site_name, device_name, updates, io) ==
    /\ steps < MaxSteps
    /\ Commit(update_device(inventory, disk, site_name, device_name,
                            updates, io),
              [NoOp EXCEPT !.op = "update", !.site = site_name,
                           !.name = device_name, !.updates = updates,
                           !.io = io])

\* a call of delete_device(site_name, device_name)
DeleteDevice(site_name, device_name, io) ==
    /\ steps < MaxSteps
    /\ Commit(delete_device(inventory, disk, site_name, device_name, io),
              [NoOp EXCEPT !.op = "delete", !.site = site_name,
                           !.name = device_name, !.io = io])

\* a call of get_device_by_name(device_name, site_name)
GetDeviceByName(device_name, site_name) ==
    LET r == get_device_by_name(inventory, device_name, site_name)
    IN /\ steps < MaxSteps
       /\ inventory' = r.inv
       /\ lastOp' = [NoOp EXCEPT !.op = "find", !.site = site_name,
                                 !.name = device_name, !.raised = r.raised,
                                 !.found = r.device]
       /\ steps' = steps + 1
       /\ UNCHANGED disk

\* a call of calculate_free_ips(vlan_id, site_name)
CalculateFreeIps(vlan_id, site_name) ==
    LET r == calculate_free_ips(inventory, vlan_id, site_name)
    IN /\ steps < MaxSteps
       /\ inventory' = r.inv
       /\ lastOp' = [NoOp EXCEPT !.op = "free", !.site = site_name,
                                 !.vlan = vlan_id, !.raised = r.raised,
                                 !.free_ips = r.free_ips]
       /\ steps' = steps + 1
       /\ UNCHANGED disk

Next ==
    \/ \E s \in SiteInputs, d \in DeviceInputs, io \in IoOutcomes :
          AddDevice(s, d, io)
    \/ \E s \in SiteInputs, n \in NameInputs, u \in UpdateInputs,
          io \in IoOutcomes : UpdateDevice(s, n, u, io)
    \/ \E s \in SiteInputs, n \in NameInputs, io \in IoOutcomes :
          DeleteDevice(s, n, io)
    \/ \E n \in NameInputs, s \in SiteInputs : GetDeviceByName(n, s)
    \/ \E v \in VlanInputs, s \in SiteInputs \ {NoSite} :
          CalculateFreeIps(v, s)

Spec == Init /\ [][Next]_vars

\* ------------------------------------------------------------------------
\* Runs of calculate_free_ips over many VLAN records
\* ------------------------------------------------------------------------

\* Subnets of the first VLAN 20 of hq: a /24, and a /29 (written with host
\* bits set), /30, /31 and /32 around 10.10.20.8.
SubnetInputs ==
    {<<10, 10, 20, 0, 24>>, <<10, 10, 20, 9, 29>>, <<10, 10, 20, 8, 30>>,
     <<10, 10, 20, 8, 31>>, <<10, 10, 20, 9, 32>>}

\* Declared pools: a proper range and one whose end precedes its start.
PoolInputs ==
    {[start |-> <<10, 10, 20, 10>>, end |-> <<10, 10, 20, 12>>],
     [start |-> <<10, 10, 20, 12>>, end |-> <<10, 10, 20, 10>>]}

\* VLAN records: every subnet, with and without gateway, with and without
\* a pool.
VlanRecords ==
    LET bare == {[id |-> 20, subnet |-> sn] : sn \in SubnetInputs}
        gw   == bare \cup {SetItem(v, "gateway", <<10, 10, 20, 9>>) : v \in bare}
    IN gw \cup {SetItem(v, "dhcp_pool", p) : v \in gw, p \in PoolInputs}

\* Device lists of hq: literal and dhcp devices of VLAN 20, one of VLAN 30.
FreeDeviceLists ==
    { <<>>,
      <<Device("pc1", <<10, 10, 20, 11>>)>>,
      <<Device("pc1", <<10, 10, 20, 13>>), Device("pc2", Dhcp),
        [Device("srv1", <<10, 10, 20, 14>>) EXCEPT !.vlan = 30],
        Device("pc3", <<10, 10, 20, 8>>)>> }

\* The file of these runs: hq holds the record under test first, then a
\* second VLAN 20 and a VLAN 30; branch holds a VLAN 20 device whose
\* address lies in hq's subnets.
InitFree ==
    /\ \E v \in VlanRecords, devs \in FreeDeviceLists :
          inventory = Document(
              devs,
              <<v, [id |-> 20, subnet |-> <<10, 10, 99, 0, 30>>],
                [id |-> 30, subnet |-> <<10, 10, 20, 12, 30>>]>>,
              <<Device("pc4", <<10, 10, 20, 10>>)>>,
              BranchVlans)
    /\ disk = inventory
    /\ lastOp = NoOp
    /\ steps = 0

NextFree ==
    \E v \in VlanInputs, s \in SiteInputs \ {NoSite} : CalculateFreeIps(v, s)

FreeSpec == InitFree /\ [][NextFree]_vars

\* ------------------------------------------------------------------------
\* Properties
\* ------------------------------------------------------------------------

Mutators == {"add", "update", "delete"}

\* The device list of a site of the file.
DevicesOf(inv, site_name) == inv.sites[site_name].devices

\* The site exists and holds a device of that name.
HasName(inv, site_name, device_name) ==
    /\ site_name \in SiteKeys(inv)
    /\ \E i \in 1..Len(DevicesOf(inv, site_name)) :
          DevicesOf(inv, site_name)[i]["name"] = device_name

\* C1: after any sequence of addDevice, updateDevice and deleteDevice calls
\* from an inventory with unique names per site, no site holds two devices
\* of the same name.
C1_UniqueNamesPerSite ==
    \A s \in SiteKeys(inventory) :
        \A i, j \in 1..Len(DevicesOf(inventory, s)) :
            i # j => DevicesOf(inventory, s)[i]["name"]
                        # DevicesOf(inventory, s)[j]["name"]

\* C2: whenever addDevice, updateDevice or deleteDevice returns success,
\* the persisted document equals the in-memory inventory.
C2_SuccessMeansPersisted ==
    (lastOp.op \in Mutators /\ lastOp.result) => disk = inventory

\* a delete that returned success after an earlier call had changed memory
C2_Witness ==
    /\ lastOp.op = "delete"
    /\ lastOp.result
    /\ steps = 2

\* The record carries the seven required fields.
Complete(device_data) == SevenFields \subseteq DOMAIN device_data

\* The call is one whose validation or lookup fails on the inventory inv.
Rejected(call, inv) ==
    CASE call.op = "add" ->
            \/ ~Complete(call.device)
            \/ call.site \notin SiteKeys(inv)
            \/ HasName(inv, call.site, call.device["name"])
      [] OTHER -> ~HasName(inv, call.site, call.name)

\* The in-memory mutation of the call is in place in after, given before.
ChangeInPlace(call, before, after) ==
    LET old == DevicesOf(before, call.site)
        new == DevicesOf(after, call.site)
    IN CASE call.op = "add" ->
               /\ Len(new) = Len(old) + 1
               /\ new[Len(new)] = call.device
         [] call.op = "update" ->
               /\ Len(new) = Len(old)
               /\ \E i \in 1..Len(old) :
                     /\ old[i]["name"] = call.name
                     /\ \A k \in DOMAIN call.updates :
                           k \in DOMAIN new[i] /\ new[i][k] = call.updates[k]
         [] OTHER ->
               /\ Len(new) < Len(old)
               /\ ~HasName(after, call.site, call.name)

\* What C3 and its amendment share: no write when validation or lookup
\* fails, a write only with the mutation in place, and a failed write
\* returns failure with the mutation still in place.
WriteDiscipline ==
    /\ Rejected(lastOp', inventory) => (~lastOp'.wrote /\ disk' = disk)
    /\ lastOp'.wrote => ChangeInPlace(lastOp', inventory, inventory')
    /\ (lastOp'.wrote /\ lastOp'.io # "ok") => ~lastOp'.result

\* C3 as stated: persistence is attempted only after the in-memory mutation
\* succeeded, a failed write returns failure without rolling back, and
\* memory and the persisted document then differ.
C3_FailedWriteLeavesThemDifferent ==
    [][lastOp'.op \in Mutators =>
          /\ WriteDiscipline
          /\ (lastOp'.wrote /\ ~lastOp'.result) => inventory' # disk']_vars

\* C3 amended: persistence is attempted only after the in-memory mutation
\* succeeded, a failed write returns failure without rolling back, and the
\* file is left with its previous content or truncated (memory and the
\* file may then be equal).
C3_FailedWriteKeepsMemory ==
    [][lastOp'.op \in Mutators =>
          /\ WriteDiscipline
          /\ (lastOp'.wrote /\ ~lastOp'.result) =>
                disk' \in {disk, Truncated}]_vars

\* an add whose write failed: failure returned, the device is in memory
C3_Witness ==
    /\ lastOp.op = "add"
    /\ lastOp.wrote
    /\ ~lastOp.result
    /\ HasName(inventory, lastOp.site, lastOp.device["name"])
    /\ disk # inventory

\* C4: addDevice on a site that already holds a device of that name returns
\* failure, appends nothing, persists nothing and leaves the stored records
\* unchanged (same fields, same values).
C4_CollisionLeavesRecord ==
    [][(/\ lastOp'.op = "add"
        /\ "name" \in DOMAIN lastOp'.device
        /\ HasName(inventory, lastOp'.site, lastOp'.device["name"]))
       => /\ ~lastOp'.result
          /\ ~lastOp'.wrote
          /\ disk' = disk
          /\ DevicesOf(inventory', lastOp'.site)
                = DevicesOf(inventory, lastOp'.site)]_vars

\* C5 as stated: after a successful addDevice(site, d),
\* findDeviceByName(d.name, site) returns a record with the same fields and
\* values as d.
C5_FindReturnsExactRecord ==
    (lastOp.op = "add" /\ lastOp.result) =>
        get_device_by_name(inventory, lastOp.device["name"], lastOp.site).device
            = lastOp.device

\* C5 amended: after a successful addDevice(site, d),
\* findDeviceByName(d.name, site) returns d with its site key set to the
\* site it was added to: every other field has d's value.
C5_FindReturnsAnnotatedRecord ==
    (lastOp.op = "add" /\ lastOp.result) =>
        LET r == get_device_by_name(inventory, lastOp.device["name"],
                                    lastOp.site)
        IN /\ ~r.raised
           /\ r.device = SetItem(lastOp.device, "site", lastOp.site)

\* a successful add of a record that carried another site key
C5_Witness ==
    /\ lastOp.op = "add"
    /\ lastOp.result
    /\ "site" \in DOMAIN lastOp.device
    /\ lastOp.device["site"] # lastOp.site

C7_AddValidatesThenAppends ==
    [][lastOp'.op = "add" =>
          LET d == lastOp'.device
              s == lastOp'.site
          IN IF ~Complete(d) \/ s \notin SiteKeys(inventory)
             THEN /\ ~lastOp'.result
                  /\ ~lastOp'.wrote
                  /\ disk' = disk
                  /\ \A k \in SiteKeys(inventory) :
                        Len(DevicesOf(inventory', k))
                           = Len(DevicesOf(inventory, k))
             ELSE ~HasName(inventory, s, d["name"]) =>
                  LET old == DevicesOf(inventory, s)
                      new == DevicesOf(inventory', s)
                  IN /\ Len(new) = Len(old) + 1
                     /\ new[Len(new)] = d
                     /\ \A i \in 1..Len(old) :
                           new[i]["name"] = old[i]["name"]
                     /\ lastOp'.wrote
                     /\ lastOp'.result = (lastOp'.io = "ok")
                     /\ lastOp'.result => disk' = inventory']_vars

\* an add to a site that already held a device: appended behind it, saved
C7_Witness ==
    /\ lastOp.op = "add"
    /\ lastOp.result
    /\ Len(DevicesOf(inventory, lastOp.site)) = 2
    /\ DevicesOf(inventory, lastOp.site)[2] = lastOp.device
    /\ disk = inventory

\* C8: updateDevice on a site that holds a device of that name sets exactly
\* the fields of partialFields on that device and leaves its other fields,
\* the other devices of the site and the other sites unchanged; when no
\* device of that name is in the site it returns failure and changes
\* nothing in memory or in storage.
C8_UpdateMergesOnlyGivenFields ==
    [][lastOp'.op = "update" =>
          LET s == lastOp'.site
              u == lastOp'.updates
          IN IF HasName(inventory, s, lastOp'.name)
             THEN LET old == DevicesOf(inventory, s)
                      new == DevicesOf(inventory', s)
                  IN /\ Len(new) = Len(old)
                     /\ \E i \in 1..Len(old) :
                           /\ old[i]["name"] = lastOp'.name
                           /\ DOMAIN new[i] = (DOMAIN old[i]) \cup (DOMAIN u)
                           /\ \A k \in DOMAIN u : new[i][k] = u[k]
                           /\ \A k \in (DOMAIN old[i]) \ (DOMAIN u) :
                                 new[i][k] = old[i][k]
                           /\ \A j \in 1..Len(old) : j # i => new[j] = old[j]
                     /\ inventory'.sites[s].vlans = inventory.sites[s].vlans
                     /\ \A t \in SiteKeys(inventory) \ {s} :
                           inventory'.sites[t] = inventory.sites[t]
                     /\ SiteKeys(inventory') = SiteKeys(inventory)
             ELSE /\ ~lastOp'.result
                  /\ inventory' = inventory
                  /\ disk' = disk]_vars

\* an update that changed a stored field and added a new one
C8_Witness ==
    /\ lastOp.op = "update"
    /\ lastOp.wrote
    /\ "role" \in DOMAIN lastOp.updates
    /\ \E i \in 1..Len(DevicesOf(inventory, lastOp.site)) :
          /\ "role" \in DOMAIN DevicesOf(inventory, lastOp.site)[i]
          /\ DevicesOf(inventory, lastOp.site)[i]["status"] = "active"

\* The last call was calculate_free_ips on a VLAN the site declares.
FreeOnDeclaredVlan ==
    /\ lastOp.op = "free"
    /\ lastOp.site \in SiteKeys(inventory)
    /\ \E i \in 1..Len(inventory.sites[lastOp.site].vlans) :
          inventory.sites[lastOp.site].vlans[i]["id"] = lastOp.vlan

\* The record the call resolved: the first of the site's list with the id.
ResolvedVlan ==
    LET vlans == inventory.sites[lastOp.site].vlans
        first == CHOOSE i \in 1..Len(vlans) :
                    /\ vlans[i]["id"] = lastOp.vlan
                    /\ \A j \in 1..(i - 1) : vlans[j]["id"] # lastOp.vlan
    IN vlans[first]

\* Integer of the network address of a CIDR text: host bits cleared.
NetworkAddress(subnet) ==
    LET n == ip_address(SubSeq(subnet, 1, 4))
    IN n - (n % (2 ^ (32 - subnet[5])))

\* Integer of the broadcast address of a CIDR text: host bits set.
BroadcastAddress(subnet) ==
    NetworkAddress(subnet) + 2 ^ (32 - subnet[5]) - 1

\* The addresses in the returned list, as integers.
ReturnedAddresses ==
    {ip_address(lastOp.free_ips[i]) : i \in 1..Len(lastOp.free_ips)}

HostSet(subnet) ==
    IF subnet[5] >= 31
    THEN NetworkAddress(subnet)..BroadcastAddress(subnet)
    ELSE (NetworkAddress(subnet) + 1)..(BroadcastAddress(subnet) - 1)

\* The used set C10 describes for the resolved VLAN record.
UsedSet ==
    LET devs == DevicesOf(inventory, lastOp.site)
        v == ResolvedVlan
    IN {ip_address(devs[i]["ip"]) :
            i \in {j \in 1..Len(devs) : /\ devs[j]["vlan"] = lastOp.vlan
                                         /\ devs[j]["ip"] # Dhcp}}
       \cup (IF "gateway" \in DOMAIN v
             THEN {ip_address(v["gateway"])} ELSE {})
       \cup (IF "dhcp_pool" \in DOMAIN v
             THEN ip_address(v["dhcp_pool"]["start"])
                     ..ip_address(v["dhcp_pool"]["end"])
             ELSE {})

\* C10: for an existing VLAN of a site, calculate_free_ips returns exactly
\* the host addresses of the subnet that are not used, in strictly
\* ascending order without duplicates, the used set being the literal ip
\* of every device of that VLAN and site, the gateway if declared and the
\* declared pool from start to end inclusive.
C10_FreeIsHostsMinusUsed ==
    FreeOnDeclaredVlan =>
        /\ ~lastOp.raised
        /\ \A i \in 1..Len(lastOp.free_ips) :
              lastOp.free_ips[i] = str_ip(ip_address(lastOp.free_ips[i]))
        /\ \A i, j \in 1..Len(lastOp.free_ips) :
              i < j => ip_address(lastOp.free_ips[i])
                          < ip_address(lastOp.free_ips[j])
        /\ ReturnedAddresses = HostSet(ResolvedVlan["subnet"]) \ UsedSet

\* a VLAN with gateway and pool, a literal and a dhcp device, free hosts
C10_Witness ==
    /\ FreeOnDeclaredVlan
    /\ "gateway" \in DOMAIN ResolvedVlan
    /\ "dhcp_pool" \in DOMAIN ResolvedVlan
    /\ ResolvedVlan["subnet"][5] = 29
    /\ \E i \in 1..Len(DevicesOf(inventory, lastOp.site)) :
          DevicesOf(inventory, lastOp.site)[i]["ip"] = Dhcp
    /\ lastOp.free_ips = <<<<10, 10, 20, 14>>>>

\* The last call was calculate_free_ips on a /24 record without a pool, in
\* a site that holds no device of that VLAN.
FreeOnBare24 ==
    /\ FreeOnDeclaredVlan
    /\ ResolvedVlan["subnet"][5] = 24
    /\ "dhcp_pool" \notin DOMAIN ResolvedVlan
    /\ \A i \in 1..Len(DevicesOf(inventory, lastOp.site)) :
          DevicesOf(inventory, lastOp.site)[i]["vlan"] # lastOp.vlan

\* C11 as stated: for a /24 record with no declared pool and no devices of
\* that VLAN and site, calculate_free_ips returns exactly 253 addresses.
C11_Bare24Has253 ==
    FreeOnBare24 => Len(lastOp.free_ips) = 253

\* C11 amended: for such a record calculate_free_ips returns exactly 253
\* addresses when the record declares a gateway (a host address of the
\* subnet) and exactly 254 when it declares none.
C11_Bare24Has253WithGateway ==
    FreeOnBare24 =>
        Len(lastOp.free_ips) =
            IF "gateway" \in DOMAIN ResolvedVlan THEN 253 ELSE 254

\* a /24 with a gateway, no pool, no devices: 253 free addresses
C11_Witness ==
    /\ FreeOnBare24
    /\ "gateway" \in DOMAIN ResolvedVlan
    /\ Len(lastOp.free_ips) = 253

\* ------------------------------------------------------------------------
\* The VLAN calculator (01-vlan_calculator/vlan_calculator.py)
\*
\* A site text is the sequence of its characters; the dotted texts the
\* f-strings build are tuples as above, and "N/A" is the tuple <<"N/A">>.
\* ------------------------------------------------------------------------

\* The text "N/A" of dhcp_start and dhcp_end.
NotApplicable == <<"N/A">>

\* vlan_names, and the default of vlan_names.get(vlan_id, "Unknown")
vlan_names(vlan_id) ==
    CASE vlan_id = 10 -> "Hypervisor"
      [] vlan_id = 20 -> "Server"
      [] vlan_id = 30 -> "Backup"
      [] vlan_id = 40 -> "Management"
      [] vlan_id = 50 -> "Clients"
      [] OTHER -> "Unknown"

\* str.upper() on one character: the lower-case letters map to their
\* capitals, every other character to itself.
UpperChar(c) ==
    CASE c = "a" -> "A" [] c = "b" -> "B" [] c = "c" -> "C"
      [] c = "h" -> "H" [] c = "l" -> "L" [] c = "n" -> "N"
      [] c = "q" -> "Q" [] c = "r" -> "R"
      [] OTHER -> c

\* A comparison that takes the site as typed, without upper().
upper_as_typed(text) == text

\* site.upper()
upper(text) == [i \in 1..Len(text) |-> UpperChar(text[i])]

\* site_prefix = "10" if site.upper() == "HQ" else "20"
site_prefix(site) == IF upper(site) = <<"H", "Q">> THEN 10 ELSE 20

\* A pool reported from VLAN 50 upwards.
HasDhcpRange_from_50(vlan_id) == vlan_id >= 50

\* if vlan_id == 50:
HasDhcpRange(vlan_id) == vlan_id = 50

\* calculate_vlan
calculate_vlan(vlan_id, site) ==
    LET prefix == site_prefix(site)
    IN [vlan_id |-> vlan_id,
        vlan_name |-> vlan_names(vlan_id),
        site |-> upper(site),
        subnet |-> <<10, prefix, vlan_id, 0>>,
        subnet_mask |-> <<255, 255, 255, 0>>,
        cidr |-> <<10, prefix, vlan_id, 0, 24>>,
        gateway |-> <<10, prefix, vlan_id, 1>>,
        first_usable |-> <<10, prefix, vlan_id, 2>>,
        last_usable |-> <<10, prefix, vlan_id, 254>>,
        broadcast |-> <<10, prefix, vlan_id, 255>>,
        dhcp_start |-> IF HasDhcpRange(vlan_id)
                       THEN <<10, prefix, vlan_id, 50>> ELSE NotApplicable,
        dhcp_end |-> IF HasDhcpRange(vlan_id)
                     THEN <<10, prefix, vlan_id, 150>> ELSE NotApplicable,
        usable_ips |-> 254]

\* The VLAN ids main() accepts.
RecognizedVlans == {10, 20, 30, 40, 50}

\* VLAN ids passed to calculate_vlan: the recognized ones and two others.
PlanVlanInputs == RecognizedVlans \cup {1, 60}

\* Site texts passed to calculate_vlan: HQ in its four spellings, Branch in
\* two, HQ with a trailing blank, another word, and the empty text.
PlanSiteInputs ==
    {<<"H", "Q">>, <<"h", "q">>, <<"H", "q">>, <<"h", "Q">>,
     <<"B", "r", "a", "n", "c", "h">>, <<"b", "r", "a", "n", "c", "h">>,
     <<"H", "Q", " ">>, <<"l", "a", "b">>, <<>>}

\* The calculator runs on its own: the inventory plays no part.
InitPlan ==
    /\ inventory = Document(<<>>, HqVlans, <<>>, BranchVlans)
    /\ disk = inventory
    /\ lastOp = NoOp
    /\ steps = 0

\* a call of calculate_vlan(vlan_id, site)
CalculateVlan(vlan_id, site) ==
    /\ steps < MaxSteps
    /\ lastOp' = [op |-> "plan", vlan_id |-> vlan_id, site |-> site,
                  summary |-> calculate_vlan(vlan_id, site)]
    /\ steps' = steps + 1
    /\ UNCHANGED <<inventory, disk>>

NextPlan ==
    \E v \in PlanVlanInputs, s \in PlanSiteInputs : CalculateVlan(v, s)

PlanSpec == InitPlan /\ [][NextPlan]_vars

\* The site text is HQ in any mix of upper and lower case.
IsHQ(site) ==
    /\ Len(site) = 2
    /\ site[1] \in {"h", "H"}
    /\ site[2] \in {"q", "Q"}

\* The second octet the convention gives the site.
PrefixOf(site) == IF IsHQ(site) THEN 10 ELSE 20

\* The first three octets of a dotted text.
FirstThree(text) == SubSeq(text, 1, 3)

\* C12: for every VLAN id in {10,20,30,40,50} and every site string, plan
\* returns subnet 10.P.<vlan_id>.0/24 with P = 10 when the site is HQ
\* case-insensitively and P = 20 otherwise, gateway .1, first usable .2,
\* last usable .254, broadcast .255 and usable count 254; so the four
\* addresses share the subnet's first three octets, first usable is
\* gateway + 1 and last usable is broadcast - 1.
C12_PlanFollowsConvention ==
    (lastOp.op = "plan" /\ lastOp.vlan_id \in {10, 20, 30, 40, 50}) =>
        LET r == lastOp.summary
            p == PrefixOf(lastOp.site)
            v == lastOp.vlan_id
        IN /\ r.subnet = <<10, p, v, 0>>
           /\ r.cidr = <<10, p, v, 0, 24>>
           /\ r.gateway = <<10, p, v, 1>>
           /\ r.first_usable = <<10, p, v, 2>>
           /\ r.last_usable = <<10, p, v, 254>>
           /\ r.broadcast = <<10, p, v, 255>>
           /\ r.usable_ips = 254
           /\ \A a \in {r.gateway, r.first_usable, r.last_usable, r.broadcast} :
                 FirstThree(a) = FirstThree(r.subnet)
           /\ ip_address(r.first_usable) = ip_address(r.gateway) + 1
           /\ ip_address(r.last_usable) = ip_address(r.broadcast) - 1

\* a plan for HQ typed in lower case: second octet 10
C12_Witness ==
    /\ lastOp.op = "plan"
    /\ lastOp.site = <<"h", "q">>
    /\ lastOp.vlan_id = 30
    /\ lastOp.summary.cidr = <<10, 10, 30, 0, 24>>

\* C13: plan reports a DHCP pool exactly when vlan_id is 50, then from
\* 10.P.50.50 to 10.P.50.150 for the site's prefix P; for every other VLAN
\* id dhcp_start and dhcp_end are both "N/A".
C13_PoolOnlyForVlan50 ==
    lastOp.op = "plan" =>
        LET r == lastOp.summary
            p == PrefixOf(lastOp.site)
        IN IF lastOp.vlan_id = 50
           THEN /\ r.dhcp_start = <<10, p, 50, 50>>
                /\ r.dhcp_end = <<10, p, 50, 150>>
           ELSE /\ r.dhcp_start = NotApplicable
                /\ r.dhcp_end = NotApplicable

\* plan(50, "HQ"): the pool 10.10.50.50 to 10.10.50.150
C13_Witness ==
    /\ lastOp.op = "plan"
    /\ lastOp.vlan_id = 50
    /\ lastOp.site = <<"H", "Q">>
    /\ lastOp.summary.dhcp_start = <<10, 10, 50, 50>>
    /\ lastOp.summary.dhcp_end = <<10, 10, 50, 150>>

\* ------------------------------------------------------------------------
\* The remaining queries of the inventory manager
\* ------------------------------------------------------------------------

\* get_devices_by_type: [d for d in all_devices if d.get('type') == device_type]
get_devices_by_type(inv, device_type, site_name) ==
    LET all == get_all_devices(inv, site_name)
    IN [raised |-> all.raised,
        inv |-> all.inv,
        devices |-> SelectSeq(all.devices,
                       LAMBDA d : "type" \in DOMAIN d /\ d["type"] = device_type)]

\* device.get(key, default)
GetOr(device, key, default) ==
    IF key \in DOMAIN device THEN device[key] ELSE default

\* One of the counting loops of get_network_statistics: for every value of
\* the key among the devices, the number of devices that have it.
CountBy(devices, key, default) ==
    [v \in {GetOr(devices[i], key, default) : i \in 1..Len(devices)} |->
        Len(SelectSeq(devices, LAMBDA d : GetOr(d, key, default) = v))]

\* get_network_statistics: the returned dict and the inventory after
get_network_statistics(inv, site_name) ==
    LET all == get_all_devices(inv, site_name)
        dhcp_count == Len(SelectSeq(all.devices,
                          LAMBDA d : "ip" \in DOMAIN d /\ d["ip"] = Dhcp))
    IN IF all.raised
       THEN [raised |-> TRUE, inv |-> inv, stats |-> None]
       ELSE [raised |-> FALSE, inv |-> all.inv,
             stats |-> [total_devices |-> Len(all.devices),
                        by_type |-> CountBy(all.devices, "type", "unknown"),
                        by_vlan |-> CountBy(all.devices, "vlan", 0),
                        by_status |-> CountBy(all.devices, "status", "unknown"),
                        dhcp_devices |-> dhcp_count,
                        static_devices |-> Len(all.devices) - dhcp_count]]

\* export_to_csv: False when the site is unknown (the exception is caught),
\* when there is no device, or when writing the file fails; rows is what
\* was handed to the writer.
export_to_csv(inv, site_name, io) ==
    LET all == get_all_devices(inv, site_name)
    IN IF all.raised THEN [inv |-> inv, result |-> FALSE, rows |-> <<>>]
       ELSE IF Len(all.devices) = 0
            THEN [inv |-> all.inv, result |-> FALSE, rows |-> <<>>]
       ELSE IF io # "ok"
            THEN [inv |-> all.inv, result |-> FALSE, rows |-> <<>>]
       ELSE [inv |-> all.inv, result |-> TRUE, rows |-> all.devices]

\* Device types callers filter by.
TypeInputs == {"client", "server"}

\* The state after a query q that returned the inventory q.inv.
AfterQuery(q, call) ==
    /\ steps < MaxSteps
    /\ inventory' = q.inv
    /\ lastOp' = call
    /\ steps' = steps + 1
    /\ UNCHANGED disk

\* a call of get_all_devices(site_name)
GetAllDevices(site_name) ==
    LET q == get_all_devices(inventory, site_name)
    IN AfterQuery(q, [op |-> "list", site |-> site_name,
                      raised |-> q.raised, devices |-> q.devices])

\* a call of get_devices_by_vlan(vlan_id, site_name)
GetDevicesByVlan(vlan_id, site_name) ==
    LET q == get_devices_by_vlan(inventory, vlan_id, site_name)
    IN AfterQuery(q, [op |-> "by_vlan", site |-> site_name, vlan |-> vlan_id,
                      raised |-> q.raised, devices |-> q.devices])

\* a call of get_devices_by_type(device_type, site_name)
GetDevicesByType(device_type, site_name) ==
    LET q == get_devices_by_type(inventory, device_type, site_name)
    IN AfterQuery(q, [op |-> "by_type", site |-> site_name,
                      type |-> device_type,
                      raised |-> q.raised, devices |-> q.devices])

\* a call of get_vlan_info(vlan_id, site_name)
GetVlanInfo(vlan_id, site_name) ==
    LET q == get_vlan_info(inventory, vlan_id, site_name)
    IN AfterQuery([inv |-> inventory],
                  [op |-> "vlan", site |-> site_name, vlan |-> vlan_id,
                   raised |-> q.raised, info |-> q.vlan])

\* a call of get_network_statistics(site_name)
GetNetworkStatistics(site_name) ==
    LET q == get_network_statistics(inventory, site_name)
    IN AfterQuery(q, [op |-> "stats", site |-> site_name,
                      raised |-> q.raised, stats |-> q.stats])

\* a call of export_to_csv(output_path, site_name)
ExportToCsv(site_name, io) ==
    LET q == export_to_csv(inventory, site_name, io)
    IN AfterQuery(q, [op |-> "export", site |-> site_name,
                      result |-> q.result, rows |-> q.rows])

\* Every call of the manager: the mutators and all the queries.
NextStore ==
    \/ Next
    \/ \E s \in SiteInputs : GetAllDevices(s)
    \/ \E v \in VlanInputs, s \in SiteInputs : GetDevicesByVlan(v, s)
    \/ \E t \in TypeInputs, s \in SiteInputs : GetDevicesByType(t, s)
    \/ \E v \in VlanInputs, s \in SiteInputs \ {NoSite} : GetVlanInfo(v, s)
    \/ \E s \in SiteInputs : GetNetworkStatistics(s)
    \/ \E s \in SiteInputs, io \in {"ok", "open_fails"} : ExportToCsv(s, io)

StoreSpec == Init /\ [][NextStore]_vars

\* The calls that only read.
Queries ==
    {"list", "by_vlan", "by_type", "find", "vlan", "free", "stats", "export"}

\* C17: the query operations leave the in-memory inventory unchanged: every
\* stored device record has the same fields and values after a query as
\* before it, so only addDevice, updateDevice and deleteDevice change
\* stored records.
C17_QueriesLeaveInventoryUnchanged ==
    [][lastOp'.op \in Queries => inventory' = inventory]_vars

\* ------------------------------------------------------------------------
\* The REST handlers (02-ip_management/app.py)
\*
\* A response is its HTTP status; called tells whether the handler reached
\* the manager, store_failed what the manager's operation reported (False
\* returned, None found, or an exception raised).
\* ------------------------------------------------------------------------

\* The response of a handler together with the state it leaves.
Response(inv, file, status, called, store_failed) ==
    [inventory |-> inv, disk |-> file, status |-> status,
     called |-> called, store_failed |-> store_failed]

\* api_add_device
api_add_device(inv, file, site, device_data, io) ==
    IF site = NoSite \/ DOMAIN device_data = {}
    THEN Response(inv, file, 400, FALSE, FALSE)
    ELSE LET r == add_device(inv, file, site, device_data, io)
         IN Response(r.inventory, r.disk,
                     IF r.result THEN 200 ELSE 500, TRUE, ~r.result)

\* api_update_device
api_update_device(inv, file, site, device_name, data, io) ==
    LET r == update_device(inv, file, site, device_name, data, io)
    IN Response(r.inventory, r.disk,
                IF r.result THEN 200 ELSE 500, TRUE, ~r.result)

\* api_delete_device
api_delete_device(inv, file, site, device_name, io) ==
    LET r == delete_device(inv, file, site, device_name, io)
    IN Response(r.inventory, r.disk,
                IF r.result THEN 200 ELSE 500, TRUE, ~r.result)

\* api_devices
api_devices(inv, file, site) ==
    LET q == get_all_devices(inv, site)
    IN Response(q.inv, file, IF q.raised THEN 500 ELSE 200, TRUE, q.raised)

\* api_device_detail
api_device_detail(inv, file, site, device_name) ==
    LET q == get_device_by_name(inv, device_name, site)
    IN Response(q.inv, file,
                IF q.raised THEN 500 ELSE IF q.device # None THEN 200 ELSE 404,
                TRUE, q.raised \/ q.device = None)

\* api_statistics
api_statistics(inv, file, site) ==
    LET q == get_network_statistics(inv, site)
    IN Response(q.inv, file, IF q.raised THEN 500 ELSE 200, TRUE, q.raised)

\* api_free_ips: calculate_free_ips, then get_vlan_info on the same site
api_free_ips(inv, file, site, vlan_id) ==
    LET q == calculate_free_ips(inv, vlan_id, site)
        info == get_vlan_info(q.inv, vlan_id, site)
    IN Response(q.inv, file,
                IF q.raised \/ info.raised THEN 500 ELSE 200,
                TRUE, q.raised \/ info.raised)

\* api_export_csv: the value export_to_csv returns is not looked at
api_export_csv(inv, file, site, io) ==
    LET r == export_to_csv(inv, site, io)
    IN Response(r.inv, file, 200, TRUE, ~r.result)

\* The state after a handler answered r.
Answer(r, handler, site) ==
    /\ steps < MaxSteps
    /\ inventory' = r.inventory
    /\ disk' = r.disk
    /\ lastOp' = [op |-> handler, site |-> site, status |-> r.status,
                  called |-> r.called, store_failed |-> r.store_failed]
    /\ steps' = steps + 1

\* POST /api/devices/add
ApiAddDevice(site, device_data, io) ==
    LET r == api_add_device(inventory, disk, site, device_data, io)
    IN /\ site \in SiteKeys(r.inventory) =>
             Len(r.inventory.sites[site].devices) <= MaxDevices
       /\ Answer(r, "api_add_device", site)

\* PUT /api/devices/update/<site>/<device_name>
ApiUpdateDevice(site, device_name, data, io) ==
    Answer(api_update_device(inventory, disk, site, device_name, data, io),
           "api_update_device", site)

\* DELETE /api/devices/delete/<site>/<device_name>
ApiDeleteDevice(site, device_name, io) ==
    Answer(api_delete_device(inventory, disk, site, device_name, io),
           "api_delete_device", site)

\* GET /api/devices
ApiDevices(site) ==
    Answer(api_devices(inventory, disk, site), "api_devices", site)

\* GET /api/devices/<site>/<device_name>
ApiDeviceDetail(site, device_name) ==
    Answer(api_device_detail(inventory, disk, site, device_name),
           "api_device_detail", site)

\* GET /api/statistics
ApiStatistics(site) ==
    Answer(api_statistics(inventory, disk, site), "api_statistics", site)

\* GET /api/free-ips/<site>/<vlan_id>
ApiFreeIps(site, vlan_id) ==
    Answer(api_free_ips(inventory, disk, site, vlan_id), "api_free_ips", site)

\* GET /api/export/csv
ApiExportCsv(site, io) ==
    Answer(api_export_csv(inventory, disk, site, io), "api_export_csv", site)

\* Sites that can stand in a URL path: never empty.
PathSites == SiteInputs \ {NoSite}

NextApi ==
    \/ \E s \in SiteInputs, d \in DeviceInputs \cup {EmptyDict},
          io \in IoOutcomes : ApiAddDevice(s, d, io)
    \/ \E s \in PathSites, n \in NameInputs, u \in UpdateInputs,
          io \in IoOutcomes : ApiUpdateDevice(s, n, u, io)
    \/ \E s \in PathSites, n \in NameInputs, io \in IoOutcomes :
          ApiDeleteDevice(s, n, io)
    \/ \E s \in SiteInputs : ApiDevices(s)
    \/ \E s \in PathSites, n \in NameInputs : ApiDeviceDetail(s, n)
    \/ \E s \in SiteInputs : ApiStatistics(s)
    \/ \E s \in PathSites, v \in VlanInputs : ApiFreeIps(s, v)
    \/ \E s \in SiteInputs, io \in {"ok", "open_fails"} : ApiExportCsv(s, io)

ApiSpec == Init /\ [][NextApi]_vars

\* The handlers C14 names.
NamedHandlers ==
    {"api_add_device", "api_update_device", "api_delete_device",
     "api_device_detail", "api_statistics", "api_free_ips", "api_export_csv"}

\* C14: every request handler answers with an error signal whenever the
\* manager's operation it calls reports failure and answers success only
\* when that operation succeeded; the export handler in particular reports
\* an error when export_to_csv returns False.
C14_HandlersSurfaceFailures ==
    (lastOp.op \in NamedHandlers /\ lastOp.called) =>
        (lastOp.store_failed <=> lastOp.status # 200)

\* ------------------------------------------------------------------------
\* The DHCP pool loop of calculate_free_ips, one iteration at a time
\* ------------------------------------------------------------------------

\* Longest distance between the pool addresses tried.
MaxPoolSpan == 4

\* The loop test with the end of the range left out.
PoolContinues_exclusive(current, end_ip) == current < end_ip

\* while current <= end_ip
PoolContinues(current, end_ip) == current <= end_ip

\* Pool addresses as the file writes them: 10.10.20.253 and the addresses
\* after it, across the end of the third octet.
PoolTexts ==
    {str_ip(ip_address(<<10, 10, 20, 253>>) + i) : i \in 0..MaxPoolSpan}

\* VLAN 20 records with a pool, every start against every end, with and
\* without a gateway.
LoopVlanRecords ==
    LET pooled == {[id |-> 20, subnet |-> <<10, 10, 20, 0, 23>>,
                    dhcp_pool |-> [start |-> a, end |-> b]] :
                       a \in PoolTexts, b \in PoolTexts}
    IN pooled \cup {SetItem(v, "gateway", <<10, 10, 20, 1>>) : v \in pooled}

\* calculate_free_ips has reached the loop: start_ip and end_ip are parsed,
\* current = start_ip, used_ips holds the gateway (hq has no devices).
InitLoop ==
    /\ \E v \in LoopVlanRecords :
          /\ inventory = Document(<<>>, <<v>>, <<>>, BranchVlans)
          /\ lastOp = [op |-> "pool_loop",
                       pc |-> "while",
                       vlan_info |-> v,
                       start_ip |-> ip_address(v["dhcp_pool"]["start"]),
                       end_ip |-> ip_address(v["dhcp_pool"]["end"]),
                       current |-> ip_address(v["dhcp_pool"]["start"]),
                       before |-> UsedIps(Without(v, "dhcp_pool"), <<>>),
                       used_ips |-> UsedIps(Without(v, "dhcp_pool"), <<>>),
                       iterations |-> 0]
    /\ disk = inventory
    /\ steps = 0

\* One iteration: used_ips.add(current); current = ip_address(int(current) + 1)
PoolIteration ==
    /\ lastOp.pc = "while"
    /\ PoolContinues(lastOp.current, lastOp.end_ip)
    /\ lastOp' = [lastOp EXCEPT
                    !.used_ips = @ \cup {lastOp.current},
                    !.current = @ + 1,
                    !.iterations = @ + 1]
    /\ UNCHANGED <<inventory, disk, steps>>

\* The test fails and the loop is left.
PoolExit ==
    /\ lastOp.pc = "while"
    /\ ~PoolContinues(lastOp.current, lastOp.end_ip)
    /\ lastOp' = [lastOp EXCEPT !.pc = "done"]
    /\ UNCHANGED <<inventory, disk, steps>>

NextLoop == PoolIteration \/ PoolExit

\* A running call takes its next step.
LoopSpec == InitLoop /\ [][NextLoop]_vars /\ WF_vars(NextLoop)

\* The number of addresses from start_ip to end_ip, none when the end
\* precedes the start.
PoolSize ==
    IF lastOp.end_ip < lastOp.start_ip THEN 0
    ELSE lastOp.end_ip - lastOp.start_ip + 1

\* The loop never runs more than PoolSize iterations; when it is left it has
\* run exactly PoolSize iterations and added exactly start_ip..end_ip.
PoolLoopCounts ==
    /\ lastOp.iterations <= PoolSize
    /\ lastOp.pc = "done" =>
          /\ lastOp.iterations = PoolSize
          /\ lastOp.used_ips = lastOp.before \cup (lastOp.start_ip..lastOp.end_ip)
          /\ lastOp.used_ips = UsedIps(lastOp.vlan_info, <<>>)

\* C15: the pool loop terminates for every declared pool; with the end
\* before the start it runs zero iterations and adds nothing to used_ips,
\* otherwise it runs exactly end - start + 1 iterations.
C15_PoolLoopTerminates ==
    /\ [](lastOp.op = "pool_loop" => PoolLoopCounts)
    /\ <>(lastOp.op = "pool_loop" /\ lastOp.pc = "done")

C15_Witness ==
    /\ lastOp.op = "pool_loop"
    /\ lastOp.pc = "done"
    /\ lastOp.end_ip < lastOp.start_ip
    /\ lastOp.iterations = 0
    /\ lastOp.before # {}
    /\ lastOp.used_ips = lastOp.before

\* ------------------------------------------------------------------------
\* Two add_device calls in flight on the one manager of the web server
\*
\* Each request runs add_device on the module-level manager; the check, the
\* append and the save of a call are separate steps, and steps of the two
\* calls interleave freely.
\* ------------------------------------------------------------------------

Threads == {1, 2}

\* add_device up to the duplicate check: the required fields, then
\* get_device_by_name (which annotates the stored records of the site).
add_device_check(inv, site_name, device_data) ==
    IF \E field \in Required : field \notin DOMAIN device_data
    THEN [inv |-> inv, passed |-> FALSE]
    ELSE LET found == get_device_by_name(inv, device_data["name"], site_name)
         IN IF found.raised THEN [inv |-> inv, passed |-> FALSE]
            ELSE [inv |-> found.inv, passed |-> ~AlreadyExists(found)]

\* The append taking the place of a stored device of the same name.
add_device_append_replaces(inv, site_name, device_data) ==
    [raised |-> FALSE,
     inv |-> [inv EXCEPT !.sites[site_name].devices =
                 Append(Kept(@, device_data["name"]), device_data)]]

\* site = self.get_site_info(site_name); site['devices'].append(device_data)
add_device_append(inv, site_name, device_data) ==
    IF get_site_info(inv, site_name).raised
    THEN [raised |-> TRUE, inv |-> inv]
    ELSE [raised |-> FALSE,
          inv |-> [inv EXCEPT !.sites[site_name].devices =
                                  Append(@, device_data)]]

\* What the two requests carry: thread 1 a device at .50, possibly without
\* its status; thread 2 a device at .51.
ThreadDevices(t) ==
    IF t = 1
    THEN {Device(n, <<10, 10, 20, 50>>) : n \in NameInputs}
            \cup {Without(Device("pc9", <<10, 10, 20, 50>>), "status")}
    ELSE {Device(n, <<10, 10, 20, 51>>) : n \in NameInputs}

\* Two requests have entered add_device; nothing has run yet.
InitConc ==
    /\ \E devs \in InitialDevices :
          inventory = Document(devs.hq, HqVlans, devs.branch, BranchVlans)
    /\ disk = inventory
    /\ \E s1, s2 \in {"hq", "branch"},
          d1 \in ThreadDevices(1), d2 \in ThreadDevices(2) :
          lastOp = [op |-> "concurrent_add",
                    site |-> <<s1, s2>>,
                    device_data |-> <<d1, d2>>,
                    pc |-> <<"check", "check">>,
                    checked_against |-> <<<<>>, <<>>>>,
                    passed |-> <<FALSE, FALSE>>,
                    io |-> <<"none", "none">>,
                    result |-> <<FALSE, FALSE>>]
    /\ steps = 0

\* Thread t validates and looks the name up; a failure returns False.
ThreadCheck(t) ==
    /\ lastOp.pc[t] = "check"
    /\ LET r == add_device_check(inventory, lastOp.site[t],
                                 lastOp.device_data[t])
       IN /\ inventory' = r.inv
          /\ lastOp' = [lastOp EXCEPT
                          !.checked_against[t] =
                              inventory.sites[lastOp.site[t]].devices,
                          !.passed[t] = r.passed,
                          !.pc[t] = IF r.passed THEN "append" ELSE "done"]
    /\ UNCHANGED <<disk, steps>>

\* Thread t appends its device.
ThreadAppend(t) ==
    /\ lastOp.pc[t] = "append"
    /\ LET r == add_device_append(inventory, lastOp.site[t],
                                  lastOp.device_data[t])
       IN /\ inventory' = r.inv
          /\ lastOp' = [lastOp EXCEPT
                          !.pc[t] = IF r.raised THEN "done" ELSE "save"]
    /\ UNCHANGED <<disk, steps>>

\* Thread t saves and returns.
ThreadSave(t, io) ==
    /\ lastOp.pc[t] = "save"
    /\ LET r == SaveAndReturn(inventory, disk, io)
       IN /\ disk' = r.disk
          /\ lastOp' = [lastOp EXCEPT !.io[t] = io,
                                      !.result[t] = r.result,
                                      !.pc[t] = "done"]
    /\ UNCHANGED <<inventory, steps>>

NextConc ==
    \E t \in Threads :
        \/ ThreadCheck(t)
        \/ ThreadAppend(t)
        \/ \E io \in IoOutcomes : ThreadSave(t, io)

ConcSpec == InitConc /\ [][NextConc]_vars

\* The device list thread t looked through held a device of its name.
SawItsName(t) ==
    \E i \in 1..Len(lastOp.checked_against[t]) :
        lastOp.checked_against[t][i]["name"] = lastOp.device_data[t]["name"]

\* How many devices of that name the site holds.
NameCount(inv, site_name, device_name) ==
    Cardinality({i \in 1..Len(DevicesOf(inv, site_name)) :
                    DevicesOf(inv, site_name)[i]["name"] = device_name})

\* Both calls name the same device of the same site.
SameTarget ==
    /\ lastOp.site[1] = lastOp.site[2]
    /\ Complete(lastOp.device_data[1])
    /\ lastOp.device_data[1]["name"] = lastOp.device_data[2]["name"]

\* C16: concurrent add_device calls are not serialized. A call passes the
\* duplicate check exactly when the site held no device of its name at the
\* moment it looked; once past the check its result depends on its own save
\* only; and when two calls for the same site and name have both passed,
\* both are appended, so the site holds two devices of that name and no
\* later step detects it.
C16_RaceIsNotDetected ==
    lastOp.op = "concurrent_add" =>
        /\ \A t \in Threads :
              /\ lastOp.pc[t] # "check" =>
                    (lastOp.passed[t] <=>
                        Complete(lastOp.device_data[t]) /\ ~SawItsName(t))
              /\ lastOp.pc[t] = "done" =>
                    (lastOp.result[t] <=>
                        lastOp.passed[t] /\ lastOp.io[t] = "ok")
        /\ (SameTarget /\ \A t \in Threads :
                             lastOp.passed[t] /\ lastOp.pc[t] \in {"save", "done"})
              => NameCount(inventory, lastOp.site[1],
                           lastOp.device_data[1]["name"]) = 2

\* Both calls returned True and the site, in memory and in the file, holds
\* two devices of the one name.
C16_Witness ==
    /\ lastOp.op = "concurrent_add"
    /\ SameTarget
    /\ \A t \in Threads : lastOp.pc[t] = "done" /\ lastOp.result[t]
    /\ NameCount(inventory, lastOp.site[1], lastOp.device_data[1]["name"]) = 2
    /\ NameCount(disk, lastOp.site[1], lastOp.device_data[1]["name"]) = 2

====
